---- MODULE Spec2Model ----
(***************************************************************************)
(* Model of joji.py, a Streamlit script: load and impute the diabetes      *)
(* table, scale, split, train five classifiers, select the best by F1,     *)
(* grid-search it, dump it to diabetes_model.pkl and, when the "Predict    *)
(* Diabetes" button was clicked, load the file and predict.                *)
(*                                                                         *)
(* Streamlit executes the whole script top to bottom, in a fresh           *)
(* namespace, on the first page load and again on every widget             *)
(* interaction; st.button returns True only in the run its click started.  *)
(* Only load_data is memoised across runs (st.cache_data).                 *)
(*                                                                         *)
(* Three specifications:                                                   *)
(*   Spec      the script runs of one session (lines 39-175)               *)
(*   SpecPrep  load_data's imputation on bounded tables (lines 30-37)      *)
(*   SpecTune  the grid dispatch and the grid search (lines 110-136)       *)
(***************************************************************************)
EXTENDS Integers, Sequences, FiniteSets, TLC

VARIABLES
    \* ---- session state that survives a script run
    cache,            \* st.cache_data entry of load_data: "empty", "df", "None"
    file,             \* diabetes_model.pkl on disk
    run,              \* number of script runs started so far
    test_rows,        \* rows train_test_split(random_state=42) puts in Test
    \* ---- one script run (module namespace, rebuilt on every run)
    pc,               \* position of the script
    trigger,          \* what started the run: "load", "widget", "predict"
    data,             \* load_data()'s return value: "unset", "df", "None"
    scaler,           \* StandardScaler: number of fits, rows it was fitted on
    X_train,          \* rows of the Train partition, {} before the split
    split_done,       \* line 71 has run
    results,          \* model name -> F1-Score, filled by the loop
    best_model_name,  \* line 98
    param_grid,       \* lines 112-128: the grid bound to the name, or unbound
    optimized_model,  \* line 135
    model,            \* line 169: the estimator load() returned
    message,          \* st.error / st.success of lines 172-175
    err,              \* how the run ended abnormally, "none" otherwise
    failed_at,        \* pc of the step that raised
    \* ---- SpecPrep
    raw,              \* the table pd.read_csv returned: column -> row -> cell
    df,               \* the table load_data returns
    prep_pc,          \* "off", "read" (line 25 done), "done" (line 37)
    \* ---- SpecTune
    gs_name,          \* best_model_name handed to the tuner
    gs_i,             \* number of grid cells scored so far
    gs_bank_score,    \* mean_test_score of the bank configuration's cell, -1: none
    gs_best_index,    \* best_index_ so far (0: none)
    gs_best_score,    \* best_score_ so far
    gs_pc             \* "off", "fit" (line 132 running), "done" (line 136)

vars == << cache, file, run, test_rows, pc, trigger, data, scaler, X_train,
           split_done, results, best_model_name, param_grid, optimized_model,
           model, message, err, failed_at, raw, df, prep_pc,
           gs_name, gs_i, gs_bank_score, gs_best_index, gs_best_score, gs_pc >>

sessionVars == << cache, file, run, test_rows, pc, trigger, data, scaler,
                  X_train, split_done, results, best_model_name, param_grid,
                  optimized_model, model, message, err, failed_at >>
prepVars == << raw, df, prep_pc >>
tuneVars == << gs_name, gs_i, gs_bank_score, gs_best_index, gs_best_score, gs_pc >>

(***************************************************************************)
(* Bounds                                                                  *)
(***************************************************************************)
MaxRuns == 3       \* script runs per session
NumRows == 4       \* rows of the table in Spec
MaxF1 == 2         \* F1 scores are 0..MaxF1 (a scaled score)
MaxPrepRows == 3   \* rows of the table in SpecPrep
MaxCell == 2       \* cells of the raw table are -1..MaxCell, or missing
MaxScore == 2      \* cross-validated scores are 0..MaxScore

(***************************************************************************)
(* Model Bank (lines 74-80), in dict insertion order                       *)
(***************************************************************************)
models == << "Logistic Regression", "Decision Tree", "Random Forest",
             "SVM", "AdaBoost" >>

ModelNames == { models[i] : i \in 1..Len(models) }

Rows == 1..NumRows

\* train_test_split(test_size=0.2): n_test = ceil(0.2 * n)
NTest == (2 * NumRows + 9) \div 10

\* An estimator object: which bank entry, whether it is the grid search's
\* best_estimator_, and the run that fitted it (0: never fitted).
NoModel == [name |-> "none", tuned |-> FALSE, fitted_in |-> 0]

FileAbsent == [state |-> "absent", model |-> NoModel, written_in |-> 0]

ScalerFresh == [fits |-> 0, fitted_on |-> {}]

\* the empty dict of line 84
EmptyResults == [n \in {} |-> 0]

(***************************************************************************)
(* Python's max(results, key=...) of line 98: the first key, in the dict's *)
(* iteration order, whose key value no later one exceeds.                  *)
(***************************************************************************)
RECURSIVE PyMaxFrom(_, _, _, _)
PyMaxFrom(keys, key, i, best) ==
    IF i > Len(keys) THEN best
    ELSE PyMaxFrom(keys, key, i + 1,
                   IF key[keys[i]] > key[best] THEN keys[i] ELSE best)

RECURSIVE PyMinFrom(_, _, _, _)
PyMinFrom(keys, key, i, best) ==
    IF i > Len(keys) THEN best
    ELSE PyMinFrom(keys, key, i + 1,
                   IF key[keys[i]] < key[best] THEN keys[i] ELSE best)

\* mutant: min in place of max
PyMin(keys, key) == PyMinFrom(keys, key, 2, keys[1])

RECURSIVE PyMaxLastFrom(_, _, _, _)
PyMaxLastFrom(keys, key, i, best) ==
    IF i > Len(keys) THEN best
    ELSE PyMaxLastFrom(keys, key, i + 1,
                       IF key[keys[i]] >= key[best] THEN keys[i] ELSE best)

\* mutant: a later key replaces an equal earlier one
PyMaxLast(keys, key) == PyMaxLastFrom(keys, key, 2, keys[1])

PyMax(keys, key) == PyMaxFrom(keys, key, 2, keys[1])

\* iteration order of the results dict: insertion order, that of models
ResultKeys(res) == SelectSeq(models, LAMBDA n : n \in DOMAIN res)

(***************************************************************************)
(* Hyperparameter grids (lines 112-128).  None (unlimited depth) is        *)
(* written 0; C and learning_rate are written in tenths (0.1 -> 1).        *)
(* GridSearchCV walks ParameterGrid(param_grid): parameter names sorted,   *)
(* the last name varying fastest.                                          *)
(***************************************************************************)
Product2(k1, v1, k2, v2) ==
    [ i \in 1..(Len(v1) * Len(v2)) |->
        (k1 :> v1[((i - 1) \div Len(v2)) + 1]) @@
        (k2 :> v2[((i - 1) % Len(v2)) + 1]) ]

Product3(k1, v1, k2, v2, k3, v3) ==
    [ i \in 1..(Len(v1) * Len(v2) * Len(v3)) |->
        (k1 :> v1[((i - 1) \div (Len(v2) * Len(v3))) + 1]) @@
        (k2 :> v2[(((i - 1) \div Len(v3)) % Len(v2)) + 1]) @@
        (k3 :> v3[((i - 1) % Len(v3)) + 1]) ]

Product1(k1, v1) == [ i \in 1..Len(v1) |-> (k1 :> v1[i]) ]

grid_random_forest ==
    Product3("max_depth", <<0, 10, 20>>,
             "min_samples_split", <<2, 5, 10>>,
             "n_estimators", <<50, 100, 200>>)

grid_decision_tree ==
    Product2("max_depth", <<0, 10, 20>>, "min_samples_split", <<2, 5, 10>>)

grid_svm == Product2("C", <<1, 10, 100>>, "kernel", <<"linear", "rbf">>)

\* mutant: C = 1, the bank's value, is not in the grid
grid_logistic_regression_without_default == Product1("C", <<1, 5, 100>>)

grid_logistic_regression == Product1("C", <<1, 10, 100>>)

grid_adaboost ==
    Product2("learning_rate", <<1, 5, 10>>, "n_estimators", <<50, 100, 200>>)

Unbound == [bound |-> FALSE, cells |-> << >>]

\* the if/elif chain of lines 112-128; it has no else, so a name that
\* matches no branch leaves param_grid unbound
ParamGrid(name) ==
    IF name = "Random Forest" THEN [bound |-> TRUE, cells |-> grid_random_forest]
    ELSE IF name = "Decision Tree" THEN [bound |-> TRUE, cells |-> grid_decision_tree]
    ELSE IF name = "SVM" THEN [bound |-> TRUE, cells |-> grid_svm]
    ELSE IF name = "Logistic Regression"
         THEN [bound |-> TRUE, cells |-> grid_logistic_regression]
    ELSE IF name = "AdaBoost" THEN [bound |-> TRUE, cells |-> grid_adaboost]
    ELSE Unbound

\* The Model Bank's configuration of each model (lines 75-79), on the
\* parameters its grid varies; a parameter the constructor call leaves out
\* has the library's default.
BankConfig(name) ==
    IF name = "Random Forest"
        THEN [max_depth |-> 0, min_samples_split |-> 2, n_estimators |-> 100]
    ELSE IF name = "Decision Tree" THEN [max_depth |-> 0, min_samples_split |-> 2]
    ELSE IF name = "SVM" THEN [C |-> 10, kernel |-> "linear"]
    ELSE IF name = "Logistic Regression" THEN [C |-> 10]
    ELSE [learning_rate |-> 10, n_estimators |-> 50]

(***************************************************************************)
(* The script runs of one session                                          *)
(***************************************************************************)
\* mutant: the None check of lines 40-41 left out
NeverStop(d) == "fit_scaler"

\* lines 40-41: st.stop() when load_data returned None
StopIfNone(d) == IF d = "None" THEN "stopped" ELSE "fit_scaler"

\* line 68: the rows scaler.fit_transform(X) learns mean and std from;
\* X is the whole table (line 63), the split comes after (line 71)
ScalerFitRows == Rows

\* mutant: dump(best_model, ...), the untuned bank entry
DumpPayloadUntuned ==
    [name |-> best_model_name, tuned |-> FALSE, fitted_in |-> run]

\* line 139: the object handed to dump
DumpPayload == optimized_model

\* mutant: a missing file falls back to a fresh, unfitted classifier
JoblibLoadDefault(f) ==
    IF f.state = "ok" THEN [ok |-> TRUE, model |-> f.model]
    ELSE [ok |-> TRUE,
          model |-> [name |-> "Logistic Regression", tuned |-> FALSE,
                     fitted_in |-> 0]]

\* line 169: joblib.load raises when the file is missing or unreadable
JoblibLoad(f) ==
    IF f.state = "ok" THEN [ok |-> TRUE, model |-> f.model]
    ELSE [ok |-> FALSE, model |-> NoModel]

RunLocalFresh ==
    /\ data' = "unset"
    /\ scaler' = ScalerFresh
    /\ X_train' = {}
    /\ split_done' = FALSE
    /\ results' = EmptyResults
    /\ best_model_name' = "unset"
    /\ param_grid' = Unbound
    /\ optimized_model' = NoModel
    /\ model' = NoModel
    /\ message' = "none"
    /\ err' = "none"
    /\ failed_at' = "none"

\* an uncaught exception ends the script run where it is raised
Raise(e) ==
    /\ pc' = "aborted"
    /\ err' = e
    /\ failed_at' = pc

Idle == pc \in {"idle", "done", "stopped", "aborted"}

InitSession ==
    /\ cache = "empty"
    /\ file = FileAbsent
    /\ run = 0
    /\ test_rows \in { S \in SUBSET Rows : Cardinality(S) = NTest }
    /\ pc = "idle"
    /\ trigger = "none"
    /\ data = "unset"
    /\ scaler = ScalerFresh
    /\ X_train = {}
    /\ split_done = FALSE
    /\ results = EmptyResults
    /\ best_model_name = "unset"
    /\ param_grid = Unbound
    /\ optimized_model = NoModel
    /\ model = NoModel
    /\ message = "none"
    /\ err = "none"
    /\ failed_at = "none"

InitPrepIdle ==
    /\ raw = << >>
    /\ df = << >>
    /\ prep_pc = "off"

InitTuneIdle ==
    /\ gs_name = "none"
    /\ gs_i = 0
    /\ gs_bank_score = -1
    /\ gs_best_index = 0
    /\ gs_best_score = 0
    /\ gs_pc = "off"

Init == InitSession /\ InitPrepIdle /\ InitTuneIdle

\* Streamlit starts a script run: the page load first, afterwards a widget
\* change or a click on "Predict Diabetes" (line 161)
Rerun ==
    /\ Idle
    /\ run < MaxRuns
    /\ run' = run + 1
    /\ trigger' \in (IF run = 0 THEN {"load"} ELSE {"widget", "predict"})
    /\ pc' = "load_data"
    /\ RunLocalFresh
    /\ UNCHANGED << cache, file, test_rows >>

\* lines 19-41: load_data under st.cache_data, then the None check
LoadData ==
    /\ pc = "load_data"
    /\ \E d \in (IF cache = "empty" THEN {"df", "None"} ELSE {cache}) :
          /\ data' = d
          /\ cache' = d
          /\ pc' = StopIfNone(d)
          /\ err' = IF StopIfNone(d) = "stopped" THEN "DataUnavailable" ELSE "none"
    /\ UNCHANGED << file, run, test_rows, trigger, scaler, X_train, split_done,
                    results, best_model_name, param_grid, optimized_model,
                    model, message, failed_at >>

\* line 25 raising anything but URLError: not caught, nothing is cached
LoadDataRaise ==
    /\ pc = "load_data"
    /\ cache = "empty"
    /\ Raise("Exception")
    /\ UNCHANGED << cache, file, run, test_rows, trigger, data, scaler, X_train,
                    split_done, results, best_model_name, param_grid,
                    optimized_model, model, message >>

\* lines 63-68: data.drop on None raises; otherwise the scaler is fitted
ScalerFit ==
    /\ pc = "fit_scaler"
    /\ IF data = "df"
       THEN /\ scaler' = [fits |-> scaler.fits + 1, fitted_on |-> ScalerFitRows]
            /\ pc' = "split"
            /\ UNCHANGED << err, failed_at >>
       ELSE /\ Raise("AttributeError")
            /\ UNCHANGED scaler
    /\ UNCHANGED << cache, file, run, test_rows, trigger, data, X_train,
                    split_done, results, best_model_name, param_grid,
                    optimized_model, model, message >>

\* line 71
Split ==
    /\ pc = "split"
    /\ X_train' = Rows \ test_rows
    /\ split_done' = TRUE
    /\ pc' = "train"
    /\ UNCHANGED << cache, file, run, test_rows, trigger, data, scaler, results,
                    best_model_name, param_grid, optimized_model, model,
                    message, err, failed_at >>

\* lines 85-95: one iteration of the loop over models.items()
TrainEval ==
    /\ pc = "train"
    /\ LET i == Cardinality(DOMAIN results) + 1 IN
       \E f1 \in 0..MaxF1 :
          /\ results' = (models[i] :> f1) @@ results
          /\ pc' = IF i = Len(models) THEN "select" ELSE "train"
    /\ UNCHANGED << cache, file, run, test_rows, trigger, data, scaler, X_train,
                    split_done, best_model_name, param_grid, optimized_model,
                    model, message, err, failed_at >>

\* lines 86-93 raising (fit, predict or a metric)
TrainEvalRaise ==
    /\ pc = "train"
    /\ Raise("Exception")
    /\ UNCHANGED << cache, file, run, test_rows, trigger, data, scaler, X_train,
                    split_done, results, best_model_name, param_grid,
                    optimized_model, model, message >>

\* lines 98-105
SelectBest ==
    /\ pc = "select"
    /\ best_model_name' = PyMax(ResultKeys(results), results)
    /\ pc' = "dispatch"
    /\ UNCHANGED << cache, file, run, test_rows, trigger, data, scaler, X_train,
                    split_done, results, param_grid, optimized_model, model,
                    message, err, failed_at >>

\* lines 110-128
Dispatch ==
    /\ pc = "dispatch"
    /\ param_grid' = ParamGrid(best_model_name)
    /\ pc' = "grid_search"
    /\ UNCHANGED << cache, file, run, test_rows, trigger, data, scaler, X_train,
                    split_done, results, best_model_name, optimized_model,
                    model, message, err, failed_at >>

\* lines 131-136: reading an unbound param_grid is a NameError
GridSearch ==
    /\ pc = "grid_search"
    /\ IF param_grid.bound
       THEN /\ optimized_model' = [name |-> best_model_name, tuned |-> TRUE,
                                   fitted_in |-> run]
            /\ pc' = "dump"
            /\ UNCHANGED << err, failed_at >>
       ELSE /\ Raise("NameError")
            /\ UNCHANGED optimized_model
    /\ UNCHANGED << cache, file, run, test_rows, trigger, data, scaler, X_train,
                    split_done, results, best_model_name, param_grid, model,
                    message >>

\* line 132 raising
GridSearchRaise ==
    /\ pc = "grid_search"
    /\ Raise("Exception")
    /\ UNCHANGED << cache, file, run, test_rows, trigger, data, scaler, X_train,
                    split_done, results, best_model_name, param_grid,
                    optimized_model, model, message >>

\* line 139
Dump ==
    /\ pc = "dump"
    /\ file' = [state |-> "ok", model |-> DumpPayload, written_in |-> run]
    /\ pc' = "button"
    /\ UNCHANGED << cache, run, test_rows, trigger, data, scaler, X_train,
                    split_done, results, best_model_name, param_grid,
                    optimized_model, model, message, err, failed_at >>

\* line 161 when the run was not started by the button
NoPredict ==
    /\ pc = "button"
    /\ trigger # "predict"
    /\ pc' = "done"
    /\ UNCHANGED << cache, file, run, test_rows, trigger, data, scaler, X_train,
                    split_done, results, best_model_name, param_grid,
                    optimized_model, model, message, err, failed_at >>

\* lines 161-175: transform with the fitted scaler, load, predict, report
PredictDiabetes ==
    /\ pc = "button"
    /\ trigger = "predict"
    /\ LET l == JoblibLoad(file) IN
       IF l.ok
       THEN /\ model' = l.model
            /\ \E prediction \in {0, 1} :
                  message' = IF prediction = 1 THEN "likely" ELSE "unlikely"
            /\ pc' = "done"
            /\ UNCHANGED << err, failed_at >>
       ELSE /\ Raise("ModelUnavailable")
            /\ UNCHANGED << model, message >>
    /\ UNCHANGED << cache, file, run, test_rows, trigger, data, scaler, X_train,
                    split_done, results, best_model_name, param_grid,
                    optimized_model >>

\* the file is deleted or damaged from outside the script
FileLost ==
    /\ file.state = "ok"
    /\ \E s \in {"absent", "corrupt"} :
          file' = [state |-> s, model |-> NoModel, written_in |-> 0]
    /\ UNCHANGED << cache, run, test_rows, pc, trigger, data, scaler, X_train,
                    split_done, results, best_model_name, param_grid,
                    optimized_model, model, message, err, failed_at >>

Next ==
    \/ Rerun /\ UNCHANGED << prepVars, tuneVars >>
    \/ LoadData /\ UNCHANGED << prepVars, tuneVars >>
    \/ LoadDataRaise /\ UNCHANGED << prepVars, tuneVars >>
    \/ ScalerFit /\ UNCHANGED << prepVars, tuneVars >>
    \/ Split /\ UNCHANGED << prepVars, tuneVars >>
    \/ TrainEval /\ UNCHANGED << prepVars, tuneVars >>
    \/ TrainEvalRaise /\ UNCHANGED << prepVars, tuneVars >>
    \/ SelectBest /\ UNCHANGED << prepVars, tuneVars >>
    \/ Dispatch /\ UNCHANGED << prepVars, tuneVars >>
    \/ GridSearch /\ UNCHANGED << prepVars, tuneVars >>
    \/ GridSearchRaise /\ UNCHANGED << prepVars, tuneVars >>
    \/ Dump /\ UNCHANGED << prepVars, tuneVars >>
    \/ NoPredict /\ UNCHANGED << prepVars, tuneVars >>
    \/ PredictDiabetes /\ UNCHANGED << prepVars, tuneVars >>
    \/ FileLost /\ UNCHANGED << prepVars, tuneVars >>

Spec == Init /\ [][Next]_vars

(***************************************************************************)
(* Properties of the script runs (Spec)                                    *)
(***************************************************************************)
WrittenThisRun == file.state = "ok" /\ file.written_in = run

\* C1: in every run the scaler is fitted exactly once, after the Train/Test
\* split, and only on the rows of the Train partition: no Test row
\* contributes to the learned mean and standard deviation.
C1_ScalerFitOnTrainOnly ==
    scaler.fits > 0 =>
        /\ scaler.fits = 1
        /\ split_done
        /\ scaler.fitted_on \cap test_rows = {}

\* C2: the selected model's F1 is greater than or equal to the F1 of every
\* model in results, whatever the five scores are.
C2_BestIsMax ==
    best_model_name # "unset" =>
        \A n \in DOMAIN results : results[best_model_name] >= results[n]

C2_Witness ==
    /\ best_model_name = "SVM"
    /\ results["Logistic Regression"] < results["SVM"]
    /\ results["AdaBoost"] < results["SVM"]

\* C3: among the models that share the maximum F1 the first in Model Bank
\* order is selected: no model before the selected one has the same F1.
C3_FirstMaxWins ==
    best_model_name # "unset" =>
        \A i, j \in 1..Len(models) :
            (models[j] = best_model_name /\ i < j)
                => results[models[i]] # results[best_model_name]

C3_Witness ==
    /\ best_model_name = "Decision Tree"
    /\ results["Random Forest"] = results["Decision Tree"]
    /\ results["AdaBoost"] = results["Decision Tree"]
    /\ results["Logistic Regression"] < results["Decision Tree"]

\* C4: when the dataset cannot be retrieved the run stops with
\* DataUnavailable (st.error, then st.stop), or with the exception read_csv
\* raised when it is not a URLError: no scaler is fitted, no model is
\* trained or tuned, the model file is not written in that run and no
\* prediction is served.
C4_NoDataHalts ==
    (data = "None" \/ failed_at = "load_data") =>
        /\ data = "None" => (pc = "stopped" /\ err = "DataUnavailable")
        /\ data # "None" => (pc = "aborted" /\ err = "Exception")
        /\ scaler.fits = 0
        /\ ~split_done
        /\ results = EmptyResults
        /\ best_model_name = "unset"
        /\ optimized_model = NoModel
        /\ ~WrittenThisRun
        /\ model = NoModel
        /\ message = "none"

C4_Witness ==
    /\ data = "None"
    /\ pc = "stopped"
    /\ trigger = "predict"

\* C5: a prediction never uses an untrained or default model.  A prediction
\* requested while the model file is missing or unreadable ends with
\* ModelUnavailable and shows no outcome message; an outcome message is
\* shown only for the estimator read from the file, which the grid search
\* fitted and which was dumped before.
C5_NoUntrainedPrediction ==
    [][ /\ (pc = "button" /\ trigger = "predict" /\ file.state # "ok")
            => (pc' = "aborted" /\ err' = "ModelUnavailable"
                /\ message' = "none")
        /\ (message = "none" /\ message' # "none")
            => /\ file.state = "ok"
               /\ model' = file.model
               /\ model'.tuned
               /\ model'.fitted_in \in 1..run
               /\ file.written_in \in 1..run ]_vars

C5_Witness ==
    /\ pc = "aborted"
    /\ err = "ModelUnavailable"
    /\ trigger = "predict"
    /\ message = "none"

\* C6: serving a prediction request is read-only: the run a prediction
\* request starts does not fit the scaler, does not retrain and does not
\* write the model file.
C6_PredictionReadOnly ==
    trigger = "predict" =>
        /\ scaler.fits = 0
        /\ results = EmptyResults
        /\ ~WrittenThisRun

\* C7: the model file is written only after all five models were evaluated,
\* the best was selected and its grid search completed; its content is
\* always the tuned estimator of the run that wrote it; a run that fails
\* before persistence does not write the file.
C7_PersistOnlyCompleteRun ==
    /\ WrittenThisRun =>
          /\ DOMAIN results = ModelNames
          /\ best_model_name \in ModelNames
          /\ param_grid.bound
          /\ optimized_model.tuned
          /\ optimized_model.name = best_model_name
          /\ file.model = optimized_model
    /\ file.state = "ok" =>
          /\ file.model.tuned
          /\ file.model.name \in ModelNames
          /\ file.model.fitted_in = file.written_in
    /\ ( \/ pc = "stopped"
         \/ (pc = "aborted" /\ failed_at \in {"load_data", "fit_scaler",
                                              "train", "grid_search"}) )
          => ~WrittenThisRun

C7_Witness ==
    /\ pc = "aborted"
    /\ failed_at = "train"
    /\ Cardinality(DOMAIN results) = 3
    /\ file.state = "ok"
    /\ file.written_in < run

(***************************************************************************)
(* load_data's imputation (lines 22-37) on bounded tables                  *)
(*                                                                         *)
(* A cell is missing (NaN) or a number.  A number x is stored as 2x in     *)
(* the field twice, so that the median of an even number of values, the    *)
(* mean of the two middle ones, is exact.                                  *)
(***************************************************************************)
col_names == << "Pregnancies", "Glucose", "BloodPressure", "SkinThickness",
                "Insulin", "BMI", "DiabetesPedigreeFunction", "Age",
                "Outcome" >>

Columns == { col_names[i] : i \in 1..Len(col_names) }

cols_with_zeros == {"Glucose", "BloodPressure", "SkinThickness", "Insulin", "BMI"}

NaN == [na |-> TRUE, twice |-> 0]

Num(x) == [na |-> FALSE, twice |-> 2 * x]

IsZero(c) == ~c.na /\ c.twice = 0

\* mutant: the zeros of BMI are not replaced
ReplaceZerosButBMI(t) ==
    [ c \in DOMAIN t |->
        IF c \in cols_with_zeros \ {"BMI"}
        THEN [ r \in DOMAIN t[c] |-> IF IsZero(t[c][r]) THEN NaN ELSE t[c][r] ]
        ELSE t[c] ]

\* line 32: df[cols_with_zeros].replace(0, np.nan)
ReplaceZeros(t) ==
    [ c \in DOMAIN t |->
        IF c \in cols_with_zeros
        THEN [ r \in DOMAIN t[c] |-> IF IsZero(t[c][r]) THEN NaN ELSE t[c][r] ]
        ELSE t[c] ]

\* the numbers of a column, missing cells skipped, ascending
RECURSIVE Insert(_, _)
Insert(sorted, x) ==
    IF sorted = << >> THEN << x >>
    ELSE IF x <= Head(sorted) THEN << x >> \o sorted
    ELSE << Head(sorted) >> \o Insert(Tail(sorted), x)

RECURSIVE SortedNumbers(_, _)
SortedNumbers(col, r) ==
    IF r = 0 THEN << >>
    ELSE IF col[r].na THEN SortedNumbers(col, r - 1)
    ELSE Insert(SortedNumbers(col, r - 1), col[r].twice)

\* line 35, df.median(): per column, NaN skipped; NaN for a column with no
\* number left
Median(col) ==
    LET v == SortedNumbers(col, Len(col))
        n == Len(v)
    IN  IF n = 0 THEN NaN
        ELSE IF n % 2 = 1 THEN [na |-> FALSE, twice |-> v[(n + 1) \div 2]]
        ELSE [na |-> FALSE, twice |-> (v[n \div 2] + v[(n \div 2) + 1]) \div 2]

\* line 35, df.fillna(medians): every missing cell of the table gets its
\* column's median
FillNa(t, med) ==
    [ c \in DOMAIN t |->
        [ r \in DOMAIN t[c] |-> IF t[c][r].na THEN med[c] ELSE t[c][r] ] ]

\* lines 30-37
Impute(t) ==
    LET z == ReplaceZeros(t)
    IN  FillNa(z, [ c \in DOMAIN z |-> Median(z[c]) ])

PrepRows == 1..MaxPrepRows

Cells == {NaN} \cup { Num(x) : x \in -1..MaxCell }

BackgroundCells == {Num(0), Num(1)}

\* The tables read: one column holds any cells, the other eight share a
\* column of background cells.
InitPrep ==
    /\ \E varied \in Columns :
       \E w \in [PrepRows -> Cells] :
       \E u \in [PrepRows -> BackgroundCells] :
          raw = [ c \in Columns |-> IF c = varied THEN w ELSE u ]
    /\ df = << >>
    /\ prep_pc = "read"

\* lines 30-37
LoadDataImpute ==
    /\ prep_pc = "read"
    /\ df' = Impute(raw)
    /\ prep_pc' = "done"
    /\ UNCHANGED raw

NextPrep == LoadDataImpute /\ UNCHANGED << sessionVars, tuneVars >>

PrepInit == InitSession /\ test_rows = 1..NTest /\ InitPrep /\ InitTuneIdle

SpecPrep == PrepInit /\ [][NextPrep]_vars

(***************************************************************************)
(* The grid search for the selected model (lines 110-136)                  *)
(***************************************************************************)
InitTune ==
    /\ gs_name \in ModelNames
    /\ gs_i = 0
    /\ gs_bank_score = -1
    /\ gs_best_index = 0
    /\ gs_best_score = 0
    /\ gs_pc = "fit"

\* line 132: GridSearchCV scores the next cell of the grid (the mean F1 of
\* its five folds); best_index_ is the first cell of the highest score
ScoreCell ==
    /\ gs_pc = "fit"
    /\ LET grid == ParamGrid(gs_name).cells IN
       /\ gs_i < Len(grid)
       /\ \E s \in 0..MaxScore :
             /\ gs_i' = gs_i + 1
             /\ IF gs_i = 0 \/ s > gs_best_score
                THEN gs_best_index' = gs_i + 1 /\ gs_best_score' = s
                ELSE UNCHANGED << gs_best_index, gs_best_score >>
             /\ gs_bank_score' = IF grid[gs_i + 1] = BankConfig(gs_name)
                                 THEN s ELSE gs_bank_score
    /\ UNCHANGED << gs_name, gs_pc >>

\* lines 135-136: every cell is scored, best_estimator_ and best_score_ are read
FitDone ==
    /\ gs_pc = "fit"
    /\ gs_i = Len(ParamGrid(gs_name).cells)
    /\ gs_pc' = "done"
    /\ UNCHANGED << gs_name, gs_i, gs_bank_score, gs_best_index, gs_best_score >>

NextTune ==
    \/ ScoreCell /\ UNCHANGED << sessionVars, prepVars >>
    \/ FitDone /\ UNCHANGED << sessionVars, prepVars >>

TuneInit == InitSession /\ test_rows = 1..NTest /\ InitPrepIdle /\ InitTune

SpecTune == TuneInit /\ [][NextTune]_vars

(***************************************************************************)
(* Properties of load_data's imputation (SpecPrep)                         *)
(***************************************************************************)
\* the numbers of column c of the raw table that are not zero
NonZeroRows(c) == { r \in PrepRows : ~raw[c][r].na /\ raw[c][r].twice # 0 }

Below(c, x) == Cardinality({ r \in NonZeroRows(c) : raw[c][r].twice < x })
AtMost(c, x) == Cardinality({ r \in NonZeroRows(c) : raw[c][r].twice <= x })

\* the k-th smallest non-zero number of column c
Kth(c, k) ==
    CHOOSE x \in { raw[c][r].twice : r \in NonZeroRows(c) } :
        Below(c, x) < k /\ k <= AtMost(c, x)

\* twice the median of the non-zero numbers of column c, doubled once more
\* (the sum of the two middle values; both are the same for an odd count)
MedianSum(c) ==
    LET n == Cardinality(NonZeroRows(c))
    IN  Kth(c, (n + 1) \div 2) + Kth(c, (n \div 2) + 1)

\* C9: after load_data, in each of the five columns whose median over the
\* non-zero values is not zero no cell is missing or 0; every zero (and every
\* missing cell) became that median; every non-zero number there, and every
\* number of the other columns, is what it was.
C9_Imputed ==
    prep_pc = "done" =>
        /\ \A c \in cols_with_zeros :
              (NonZeroRows(c) # {} /\ MedianSum(c) # 0) =>
                  \A r \in PrepRows :
                      /\ ~df[c][r].na
                      /\ df[c][r].twice # 0
                      /\ IF r \in NonZeroRows(c)
                         THEN df[c][r] = raw[c][r]
                         ELSE 2 * df[c][r].twice = MedianSum(c)
        /\ \A c \in Columns \ cols_with_zeros :
              \A r \in PrepRows : ~raw[c][r].na => df[c][r] = raw[c][r]

C9_Witness ==
    /\ prep_pc = "done"
    /\ IsZero(raw["BMI"][1])
    /\ raw["BMI"][2] = Num(1)
    /\ raw["BMI"][3] = Num(2)
    /\ df["BMI"][1].twice = 3
    /\ IsZero(raw["Age"][1])
    /\ IsZero(df["Age"][1])

(***************************************************************************)
(* Properties of the grid search (SpecTune)                                *)
(***************************************************************************)
\* C10: for each of the five models the bank configuration is a cell of the
\* model's grid, and the score of the configuration the grid search chooses
\* is greater than or equal to the score of that cell on the same folds.
C10_TunedAtLeastBank ==
    gs_pc = "done" =>
        /\ gs_bank_score # -1
        /\ gs_best_score >= gs_bank_score
        /\ gs_best_index \in 1..Len(ParamGrid(gs_name).cells)

C10_Witness ==
    /\ gs_pc = "done"
    /\ gs_name = "Random Forest"
    /\ gs_bank_score = 1
    /\ gs_best_score = 2
    /\ gs_best_index > 2


====
